---------------------------- MODULE Spec2Model ----------------------------
(***************************************************************************)
(* A model of jobmatch-pro (src/app.py): the matching and scoring engine   *)
(* (normalize_skill, calculate_match), the text extraction                 *)
(* (extract_text_from_file), the ranking done by the recruiter and         *)
(* job-seeker views, the upload handling of analyze_cvs and                *)
(* job_seeker_profile, with its scratch files in the shared upload folder, *)
(* and the applications that apply_job inserts.                            *)
(*                                                                         *)
(* Text.  A Python str is a sequence of one-character strings.  The        *)
(* character classes are those of Python's re module on str patterns,      *)
(* restricted to the characters of the model.                              *)
(*                                                                         *)
(* Numbers.  A float the code computes is an exact rational <<n, d>>; a    *)
(* value the code rounds to 2 decimals is the integer number of            *)
(* hundredths (66.67 is 6667, 100.0 is 10000).                             *)
(***************************************************************************)
EXTENDS Integers, Sequences, FiniteSets, TLC

VARIABLES
    call,        \* the engine function under examination and its progress
    args,        \* its arguments
    ret,         \* its return value
    route,       \* route[r]: the view function that serves request r
    files,       \* files[r]: request.files.getlist(...) of request r
    pc,          \* pc[r]: the position of request r in its handler
    idx,         \* idx[r]: the position of the upload loop in files[r]
    folder,      \* app.config['UPLOAD_FOLDER']: path -> what is stored there
    cv_text,     \* cv_text[r]: the handler's local cv_text / resume_text
    candidates,  \* candidates[r]: the handler's local list of candidates
    flashed,     \* flashed[r]: the messages flash() has recorded for r
    outcome,     \* outcome[r]: how each finished upload of r ended (history)
    profile,     \* the JobSeekerProfile row of the job seeker, or NoProfile
    applications \* the rows of the JobApplication table, in insertion order

engineVars == <<call, args, ret>>
webVars == <<route, files, pc, idx, folder, cv_text, candidates, flashed, outcome,
             profile, applications>>
vars == <<call, args, ret, route, files, pc, idx, folder, cv_text, candidates,
          flashed, outcome, profile, applications>>

(***************************************************************************)
(* Bounds of the model.                                                    *)
(***************************************************************************)
MaxSkillLen == 4     \* longest argument of normalize_skill
MaxReqLen == 3       \* longest required_skills string of calculate_match
MaxCvLen == 3        \* longest cv_text of calculate_match
SimDen == 3          \* cosine similarities are the multiples of 1/SimDen
MaxFiles == 3        \* most uploads in flight, over all requests
MaxRanked == 4       \* longest list that is ranked

(***************************************************************************)
(* Python values.                                                          *)
(***************************************************************************)
\* None, kept apart from every str (no str holds the character "None").
NoneVal == <<"None">>

\* JobSeekerProfile.query...first() when the job seeker has no profile row.
NoProfile == [none |-> TRUE]

\* The web state of a specification that examines an engine function only.
WebIdle ==
    /\ route = <<>>
    /\ files = <<>>
    /\ pc = <<>>
    /\ idx = <<>>
    /\ folder = <<>>
    /\ cv_text = <<>>
    /\ candidates = <<>>
    /\ flashed = <<>>
    /\ outcome = <<>>
    /\ profile = NoProfile
    /\ applications = <<>>

\* str.lower() on one character.
LowerChar(c) ==
    CASE c = "P" -> "p" [] c = "S" -> "s" [] c = "D" -> "d" [] c = "F" -> "f"
      [] OTHER -> c

\* str.lower().
Lower(s) == [i \in 1..Len(s) |-> LowerChar(s[i])]

\* \w of re: alphanumerics and the underscore.
IsWordChar(c) ==
    c \in {"a", "b", "c", "d", "f", "l", "o", "p", "q", "s", "t", "u", "x",
           "P", "S", "D", "F", "1", "_"}

\* \s of re, which is also what str.strip() strips and str.split() splits on.
IsSpaceChar(c) == c \in {" ", "\t"}

\* The strings over alphabet A of length at most n.
Strings(A, n) == UNION {[1..k -> A] : k \in 0..n}

\* s[from..], the empty string when from is past the end.
Drop(s, from) == IF from > Len(s) THEN <<>> ELSE SubSeq(s, from, Len(s))

\* str.strip(): the leading and trailing whitespace removed.
Strip(s) ==
    LET keep == {i \in 1..Len(s) : ~IsSpaceChar(s[i])}
    IN  IF keep = {} THEN <<>>
        ELSE SubSeq(s, CHOOSE i \in keep : \A j \in keep : i <= j,
                       CHOOSE i \in keep : \A j \in keep : j <= i)

\* re.sub(r'\s+', ' ', s): every maximal run of whitespace becomes one space.
RECURSIVE CollapseSpaces(_)
CollapseSpaces(s) ==
    IF s = <<>> THEN <<>>
    ELSE IF IsSpaceChar(Head(s))
         THEN IF Len(s) > 1 /\ IsSpaceChar(s[2])
              THEN CollapseSpaces(Tail(s))
              ELSE <<" ">> \o CollapseSpaces(Tail(s))
         ELSE <<Head(s)>> \o CollapseSpaces(Tail(s))

\* The test of the character class [^\w\s-]: the characters the first
\* re.sub of normalize_skill deletes.
StrippedBySkill(c) == ~(IsWordChar(c) \/ IsSpaceChar(c) \/ c = "-")

KeptBySkill(c) == ~StrippedBySkill(c)

\* A mutant of normalize_skill: the string is stripped first, before the
\* punctuation is deleted and the whitespace collapsed.
normalize_skill_stripfirst(skill) ==
    CollapseSpaces(SelectSeq(Lower(Strip(skill)), KeptBySkill))

\* normalize_skill (src/app.py:116): lower, delete [^\w\s-], collapse \s+,
\* strip.  A str argument never raises.
normalize_skill(skill) ==
    Strip(CollapseSpaces(SelectSeq(Lower(skill), KeptBySkill)))

(***************************************************************************)
(* Arithmetic.                                                             *)
(***************************************************************************)
\* a + b and a * b on exact rationals <<numerator, denominator>>.
RatAdd(a, b) == <<a[1] * b[2] + b[1] * a[2], a[2] * b[2]>>
RatMul(a, b) == <<a[1] * b[1], a[2] * b[2]>>

\* n / d rounded to the nearest integer, a half to the even one, as
\* Python's round does (n >= 0, d > 0).
RoundHalfEven(n, d) ==
    LET q == n \div d
        r == n % d
    IN  IF 2 * r < d THEN q
        ELSE IF 2 * r > d THEN q + 1
        ELSE IF q % 2 = 0 THEN q ELSE q + 1

\* round(x, 2), as a number of hundredths.
Round2(x) == RoundHalfEven(x[1] * 100, x[2])

(***************************************************************************)
(* calculate_match.                                                        *)
(***************************************************************************)
\* str.split(','): the pieces between the commas, at least one.
RECURSIVE SplitComma(_)
SplitComma(s) ==
    LET commas == {i \in 1..Len(s) : s[i] = ","}
    IN  IF commas = {} THEN <<s>>
        ELSE LET i == CHOOSE c \in commas : \A o \in commas : c <= o
             IN  <<SubSeq(s, 1, i - 1)>> \o SplitComma(Drop(s, i + 1))

\* sep.join(list).
RECURSIVE Join(_, _)
Join(list, sep) ==
    IF list = <<>> THEN <<>>
    ELSE IF Len(list) = 1 THEN list[1]
    ELSE list[1] \o sep \o Join(Tail(list), sep)

\* The elements of a list, as a set: set(list).
SetOf(list) == {list[i] : i \in 1..Len(list)}

\* list(a_set): the elements in an order the code does not control.
ListsOf(S) ==
    {q \in [1..Cardinality(S) -> S] : \A i, j \in 1..Cardinality(S) :
                                          q[i] = q[j] => i = j}

\* A mutant of CleanText: the hyphen is kept, as normalize_skill keeps it.
CleanTextKeepsHyphen(text) ==
    [i \in 1..Len(text) |->
        IF \/ IsWordChar(LowerChar(text[i]))
           \/ IsSpaceChar(LowerChar(text[i]))
           \/ text[i] = "-"
        THEN LowerChar(text[i]) ELSE " "]

\* re.sub(r'[^\w\s]', ' ', text.lower()) (src/app.py:130): lower-cased,
\* every character that is neither \w nor \s replaced by a space.
CleanText(text) ==
    [i \in 1..Len(text) |->
        IF IsWordChar(LowerChar(text[i])) \/ IsSpaceChar(LowerChar(text[i]))
        THEN LowerChar(text[i]) ELSE " "]

\* skills_list (src/app.py:133): the comma-separated entries that are not
\* blank, each stripped and normalized, in order, duplicates kept.  The
\* filter reads the entry before it is normalized.
SkillsList(required_skills) ==
    LET pieces == SplitComma(required_skills)
        NotBlank(e) == Strip(e) # <<>>
        kept == SelectSeq(pieces, NotBlank)
    IN  [i \in 1..Len(kept) |-> normalize_skill(Strip(kept[i]))]

\* \b of re at offset k of text (0 <= k <= Len(text)): exactly one of the
\* characters before and after the offset is a word character.
WordBoundary(text, k) ==
    LET before == k >= 1 /\ IsWordChar(text[k])
        after == k < Len(text) /\ IsWordChar(text[k + 1])
    IN  before # after

\* A mutant of SearchWord: a plain substring test, without the \b.
SearchSubstring(skill, text) ==
    \E i \in 0..(Len(text) - Len(skill)) :
        \A j \in 1..Len(skill) : text[i + j] = skill[j]

\* re.search(rf'\b{re.escape(skill)}\b', text) (src/app.py:150): skill
\* occurs in text, character for character, between two word boundaries.
SearchWord(skill, text) ==
    \E i \in 0..(Len(text) - Len(skill)) :
        /\ WordBoundary(text, i)
        /\ \A j \in 1..Len(skill) : text[i + j] = skill[j]
        /\ WordBoundary(text, i + Len(skill))

\* The features TfidfVectorizer(stop_words='english', min_df=1) takes from a
\* document: its maximal runs of at least two word characters (the default
\* token_pattern \b\w\w+\b).  No word over the characters of the model is an
\* English stop word.
Tokens(text) ==
    LET IsW(k) == k >= 1 /\ k <= Len(text) /\ IsWordChar(text[k])
    IN  {SubSeq(text, i, j) : <<i, j>> \in
            {p \in (1..Len(text)) \X (1..Len(text)) :
                /\ p[1] < p[2]
                /\ \A k \in p[1]..p[2] : IsW(k)
                /\ ~IsW(p[1] - 1)
                /\ ~IsW(p[2] + 1)}}

\* What cosine_similarity can return for two cleaned documents, in units of
\* 1/SimDen: 0 when they share no feature, else some value in (0, 1].
Cosines(jd_clean, cv_clean) ==
    IF Tokens(jd_clean) \cap Tokens(cv_clean) = {} THEN {0} ELSE 1..SimDen

\* A mutant of JdMatch: the except clause of the vectorization sets
\* jd_match to 1.
JdMatchFailsHigh(jd_clean, cv_clean, cosine) ==
    IF Strip(jd_clean) # <<>> /\ Strip(cv_clean) # <<>>
    THEN IF Tokens(jd_clean) \cup Tokens(cv_clean) = {}
         THEN <<1, 1>>
         ELSE <<cosine, SimDen>>
    ELSE <<0, 1>>

\* jd_match (src/app.py:136-144): 0 unless both cleaned texts have a
\* non-blank character; 0 when fit_transform raises on an empty vocabulary;
\* else the cosine similarity the library returns.
JdMatch(jd_clean, cv_clean, cosine) ==
    IF Strip(jd_clean) # <<>> /\ Strip(cv_clean) # <<>>
    THEN IF Tokens(jd_clean) \cup Tokens(cv_clean) = {}
         THEN <<0, 1>>
         ELSE <<cosine, SimDen>>
    ELSE <<0, 1>>

\* A mutant of FoundSkills: each matching token is reported once.
FoundSkillsOnce(skills_list, cv_clean) ==
    LET hit(i) == /\ SearchWord(skills_list[i], cv_clean)
                  /\ \A j \in 1..(i - 1) : skills_list[j] # skills_list[i]
        RECURSIVE Pick(_)
        Pick(i) == IF i > Len(skills_list) THEN <<>>
                   ELSE IF hit(i) THEN <<skills_list[i]>> \o Pick(i + 1)
                   ELSE Pick(i + 1)
    IN  IF skills_list # <<>> /\ cv_clean # <<>> THEN Pick(1) ELSE <<>>

\* found_skills (src/app.py:147-151): the entries of skills_list that occur
\* in cv_clean as whole words, in order, one per entry of skills_list.
FoundSkills(skills_list, cv_clean) ==
    LET Hit(skill) == SearchWord(skill, cv_clean)
    IN  IF skills_list # <<>> /\ cv_clean # <<>>
        THEN SelectSeq(skills_list, Hit)
        ELSE <<>>

\* skills_match (src/app.py:153).
SkillsMatch(found_skills, skills_list) ==
    IF skills_list # <<>> THEN <<Len(found_skills), Len(skills_list)>>
    ELSE <<0, 1>>

\* A mutant of TotalScore: the two weights are exchanged.
TotalScoreSwapped(skills_match, jd_match) ==
    RatMul(RatAdd(RatMul(skills_match, <<4, 10>>), RatMul(jd_match, <<6, 10>>)),
           <<100, 1>>)

\* A mutant of TotalScore: the similarity is weighted 0.6 as well.
TotalScoreOverweight(skills_match, jd_match) ==
    RatMul(RatAdd(RatMul(skills_match, <<6, 10>>), RatMul(jd_match, <<6, 10>>)),
           <<100, 1>>)

\* total_score (src/app.py:155).
TotalScore(skills_match, jd_match) ==
    RatMul(RatAdd(RatMul(skills_match, <<6, 10>>), RatMul(jd_match, <<4, 10>>)),
           <<100, 1>>)

\* set(skills_list) - set(found_skills) (src/app.py:161).
MissingSkills(skills_list, found_skills) ==
    SetOf(skills_list) \ SetOf(found_skills)

\* The record the except branch returns (src/app.py:166-172).
ZeroMatch ==
    [total_score |-> 0, jd_match |-> 0, skills_match |-> 0,
     missing_skills |-> <<>>, found_skills |-> <<>>]

\* calculate_match (src/app.py:123): the records a call can return.  cosine
\* is what the similarity library answers for the two cleaned texts.  The
\* order of missing_skills is that of a Python set, which the code does not
\* fix.  A required_skills that is None raises at .split and takes the
\* except branch.
calculate_match(cv_text_in, job_description_in, required_skills, cosine) ==
    IF required_skills = NoneVal THEN {ZeroMatch}
    ELSE
    LET text == IF cv_text_in = NoneVal \/ cv_text_in = <<>>
                THEN <<>> ELSE cv_text_in
        job_description == IF job_description_in = NoneVal
                              \/ job_description_in = <<>>
                           THEN <<>> ELSE job_description_in
        cv_clean == CleanText(text)
        jd_clean == CleanText(job_description)
        skills_list == SkillsList(required_skills)
        jd_match == JdMatch(jd_clean, cv_clean, cosine)
        found_skills == FoundSkills(skills_list, cv_clean)
        skills_match == SkillsMatch(found_skills, skills_list)
        total_score == TotalScore(skills_match, jd_match)
    IN  {[total_score |-> Round2(total_score),
          jd_match |-> Round2(RatMul(jd_match, <<100, 1>>)),
          skills_match |-> Round2(RatMul(skills_match, <<100, 1>>)),
          missing_skills |-> Join(missing, <<",", " ">>),
          found_skills |-> Join(found_skills, <<",", " ">>)] :
         missing \in ListsOf(MissingSkills(skills_list, found_skills))}

(***************************************************************************)
(* The specification of calculate_match alone: one call on every           *)
(* combination of a candidate text, a job description, a required-skills   *)
(* string and an answer of the similarity library.                         *)
(***************************************************************************)
ReqAlphabet == {"p", "s", "S", ",", "!", " ", "-"}
CvAlphabet == {"p", "s", " ", "-"}
JobDescriptions == {NoneVal, <<>>, <<"p">>, <<"p", "s">>}

InitMatch ==
    /\ call = "calculate_match"
    /\ \E cv \in Strings(CvAlphabet, MaxCvLen) \cup {NoneVal},
          jd \in JobDescriptions,
          req \in Strings(ReqAlphabet, MaxReqLen) \cup {NoneVal} :
          \E cosine \in Cosines(CleanText(IF jd = NoneVal THEN <<>> ELSE jd),
                                CleanText(IF cv = NoneVal THEN <<>> ELSE cv)) :
             args = [cv_text |-> cv, job_description |-> jd,
                     required_skills |-> req, cosine |-> cosine]
    /\ ret = NoneVal
    /\ WebIdle

CalculateMatch ==
    /\ call = "calculate_match"
    /\ call' = "returned"
    /\ ret' \in calculate_match(args.cv_text, args.job_description,
                                args.required_skills, args.cosine)
    /\ UNCHANGED <<args, webVars>>

NextMatch == CalculateMatch

SpecMatch == InitMatch /\ [][NextMatch]_vars

(***************************************************************************)
(* The specification of normalize_skill alone: every string over           *)
(* SkillAlphabet of length at most MaxSkillLen is normalized once.         *)
(***************************************************************************)
SkillAlphabet == {"p", "P", "_", "-", " ", "\t", "!"}

InitNormalize ==
    /\ call = "normalize_skill"
    /\ args \in [skill : Strings(SkillAlphabet, MaxSkillLen)]
    /\ ret = NoneVal
    /\ WebIdle

NormalizeSkill ==
    /\ call = "normalize_skill"
    /\ call' = "returned"
    /\ ret' = normalize_skill(args.skill)
    /\ UNCHANGED <<args, webVars>>

NextNormalize == NormalizeSkill

SpecNormalize == InitNormalize /\ [][NextNormalize]_vars

(***************************************************************************)
(* Uploads and the upload folder.                                          *)
(***************************************************************************)
\* Config.UPLOAD_FOLDER and Config.ALLOWED_EXTENSIONS.
UPLOAD_FOLDER == <<"u", "p", "l", "o", "a", "d", "s">>
ALLOWED_EXTENSIONS == {<<"p", "d", "f">>, <<"d", "o", "c", "x">>}

\* What python-magic reports for the PDF and DOCX types the code names.
PdfMime == "application/pdf"
DocxMime ==
    "application/vnd.openxmlformats-officedocument.wordprocessingml.document"

\* s.rsplit('.', 1): <<s>> without a dot, else the parts around the last.
RSplitDot(s) ==
    LET dots == {i \in 1..Len(s) : s[i] = "."}
    IN  IF dots = {} THEN <<s>>
        ELSE LET i == CHOOSE d \in dots : \A o \in dots : o <= d
             IN  <<SubSeq(s, 1, i - 1), Drop(s, i + 1)>>

\* allowed_file (src/app.py:79).
allowed_file(filename) ==
    /\ Len(RSplitDot(filename)) = 2
    /\ Lower(RSplitDot(filename)[2]) \in ALLOWED_EXTENSIONS

\* s.strip("._").
StripDots(s) ==
    LET keep == {i \in 1..Len(s) : s[i] \notin {".", "_"}}
    IN  IF keep = {} THEN <<>>
        ELSE SubSeq(s, CHOOSE i \in keep : \A j \in keep : i <= j,
                       CHOOSE i \in keep : \A j \in keep : j <= i)

\* werkzeug's secure_filename: path separators become whitespace, the
\* whitespace-separated words are joined by "_", every character outside
\* [A-Za-z0-9_.-] is deleted, and leading and trailing "." and "_" go.
secure_filename(filename) ==
    LET NoSep == [i \in 1..Len(filename) |->
                     IF filename[i] = "/" THEN " " ELSE filename[i]]
        words == CollapseSpaces(Strip(NoSep))
        joined == [i \in 1..Len(words) |->
                     IF words[i] = " " THEN "_" ELSE words[i]]
        Safe(c) == (IsWordChar(c) \/ c \in {".", "-"})
    IN  StripDots(SelectSeq(joined, Safe))

\* filepath (src/app.py:298-299): the secure name inside the upload folder.
FilePath(filename) == UPLOAD_FOLDER \o <<"/">> \o secure_filename(filename)

\* An uploaded file: the name the client sent, the type python-magic sniffs
\* from its bytes, the format its bytes really have, and its text.
Upload(filename, mime, format, text) ==
    [filename |-> filename, mime |-> mime, format |-> format, text |-> text]

\* The uploads of the model: two PDFs whose names have the same secure
\* form, plain text disguised as a DOCX, and a text file.
Uploads ==
    {Upload(<<"a", ".", "p", "d", "f">>, PdfMime, "pdf", <<"p", " ", "s">>),
     Upload(<<"/", "a", ".", "p", "d", "f">>, PdfMime, "pdf", <<"p">>),
     Upload(<<"b", ".", "d", "o", "c", "x">>, "text/plain", "text", <<"q">>),
     Upload(<<"c", ".", "t", "x", "t">>, "text/plain", "text", <<"p">>)}

\* The paths a scratch file of the model can have.
Paths == {FilePath(u.filename) : u \in {v \in Uploads : allowed_file(v.filename)}}

\* No file at a path.
NoFile == [req |-> 0, idx |-> 0, whole |-> FALSE]

\* The file at a path: NoFile, or the bytes of an upload (whole, or cut
\* short by a failed save).
Stored(path) ==
    IF folder[path] = NoFile THEN [exists |-> FALSE]
    ELSE [exists |-> TRUE, whole |-> folder[path].whole,
          upload |-> files[folder[path].req][folder[path].idx]]

\* The result of an extraction: the text, or the exception raised.
Text(text) == [ok |-> TRUE, text |-> text]
Raised(exception) == [ok |-> FALSE, exception |-> exception]

\* extract_text_from_pdf (src/app.py:83): pdfminer reads a whole PDF and
\* raises on anything else.
extract_text_from_pdf(stored) ==
    IF stored.whole /\ stored.upload.format = "pdf"
    THEN Text(stored.upload.text)
    ELSE Raised("Failed to extract PDF text")

\* extract_text_from_docx (src/app.py:89): python-docx reads a whole DOCX
\* and raises on anything else.
extract_text_from_docx(stored) ==
    IF stored.whole /\ stored.upload.format = "docx"
    THEN Text(stored.upload.text)
    ELSE Raised("Failed to extract DOCX text")

\* What extract_text_from_file hands its caller, with what the call did:
\* ran is the extractor it ran ("none" when it ran neither), and a failure
\* carries, as cause, the exception that line 114 wraps, and the detected
\* type when the message of that exception names it.
Extracted(result, ran) ==
    IF result.ok THEN [ok |-> TRUE, text |-> result.text, ran |-> ran]
    ELSE [ok |-> FALSE, exception |-> "File processing error",
          cause |-> result.exception, names |-> "", ran |-> ran]
Unsupported(file_type) ==
    [ok |-> FALSE, exception |-> "File processing error",
     cause |-> "Unsupported file type", names |-> file_type, ran |-> "none"]

\* extract_text_from_file (src/app.py:96): by the sniffed type, else by the
\* extension of the path; every exception is wrapped.  A path that holds no
\* file makes python-magic raise; a path without a dot makes the [1] of the
\* rsplit raise.
extract_text_from_file(file_path, stored) ==
    IF ~stored.exists THEN Extracted(Raised("FileNotFoundError"), "none")
    ELSE LET file_type == IF stored.whole THEN stored.upload.mime
                          ELSE "application/octet-stream"
         IN  IF file_type = PdfMime
             THEN Extracted(extract_text_from_pdf(stored), "pdf")
             ELSE IF file_type = DocxMime
             THEN Extracted(extract_text_from_docx(stored), "docx")
             ELSE IF Len(RSplitDot(file_path)) < 2
             THEN Extracted(Raised("IndexError"), "none")
             ELSE LET ext == Lower(RSplitDot(file_path)[2])
                  IN  IF ext = <<"p", "d", "f">>
                      THEN Extracted(extract_text_from_pdf(stored), "pdf")
                      ELSE IF ext = <<"d", "o", "c", "x">>
                      THEN Extracted(extract_text_from_docx(stored), "docx")
                      ELSE Unsupported(file_type)

(***************************************************************************)
(* The specification of extract_text_from_file alone: one call on every    *)
(* combination of a path, a sniffed type and a real format of the file.    *)
(***************************************************************************)
ExtractNames ==
    {<<"a", ".", "p", "d", "f">>, <<"a", ".", "P", "D", "F">>,
     <<"a", ".", "d", "o", "c", "x">>, <<"a", ".", "t", "x", "t">>, <<"a">>}
SniffedTypes == {PdfMime, DocxMime, "text/plain"}
Formats == {"pdf", "docx", "text"}

\* The files a path can hold: none, or a file of some sniffed type and real
\* format, whole or cut short.
StoredFiles(name) ==
    {[exists |-> FALSE]} \cup
    {[exists |-> TRUE, whole |-> whole,
      upload |-> Upload(name, mime, format, <<"p">>)] :
        whole \in BOOLEAN, mime \in SniffedTypes, format \in Formats}

InitExtract ==
    /\ call = "extract_text_from_file"
    /\ \E name \in ExtractNames :
          \E stored \in StoredFiles(name) :
             args = [file_path |-> UPLOAD_FOLDER \o <<"/">> \o name,
                     stored |-> stored]
    /\ ret = NoneVal
    /\ WebIdle

ExtractTextFromFile ==
    /\ call = "extract_text_from_file"
    /\ call' = "returned"
    /\ ret' = extract_text_from_file(args.file_path, args.stored)
    /\ UNCHANGED <<args, webVars>>

NextExtract == ExtractTextFromFile

SpecExtract == InitExtract /\ [][NextExtract]_vars

(***************************************************************************)
(* Ranking.                                                                *)
(***************************************************************************)
\* list.reverse().
Reverse(list) == [i \in 1..Len(list) |-> list[Len(list) + 1 - i]]

\* Python's stable sort of list by keys (keys[i] is the key of list[i]),
\* ascending: an element goes after those with a smaller key and after the
\* earlier ones with an equal key.
StableSortAsc(list, keys) ==
    LET n == Len(list)
        Place(i) == 1 + Cardinality({j \in 1..n :
                        keys[j] < keys[i] \/ (keys[j] = keys[i] /\ j < i)})
    IN  [k \in 1..n |-> list[CHOOSE i \in 1..n : Place(i) = k]]

\* A mutant of SortReverse: the list is sorted ascending and then reversed.
SortThenReverse(list, keys) == Reverse(StableSortAsc(list, keys))

\* list.sort(key=..., reverse=True) (src/app.py:321, 366): CPython reverses
\* the list, sorts it stably ascending and reverses it again, so that equal
\* keys keep their order.
SortReverse(list, keys) ==
    Reverse(StableSortAsc(Reverse(list), Reverse(keys)))

(***************************************************************************)
(* The database rows the handlers read.                                    *)
(***************************************************************************)
\* JobPost.query.get_or_404(job_id) of analyze_cvs (src/app.py:290): the
\* job post the uploaded CVs are scored against.
AnalyzedJob ==
    [id |-> 1, job_description |-> <<"p", "s">>,
     required_skills |-> <<"p", ",", " ", "s">>]

\* form.skills.data of the profile form (DataRequired: not empty).
FormSkills == <<"s">>

(***************************************************************************)
(* The upload loops of analyze_cvs (src/app.py:296-318) and of             *)
(* job_seeker_profile (src/app.py:383-398), one step at a time.            *)
(***************************************************************************)
Requests == {1, 2}
Routes == {"analyze_cvs", "job_seeker_profile"}

\* The upload the loop of request r is at, and its scratch path.
CurrentFile(r) == files[r][idx[r]]
CurrentPath(r) == FilePath(CurrentFile(r).filename)

\* The slice of the preview (src/app.py:308).
PreviewLen == 200

\* cv_text[:200] + ("..." if len(cv_text) > 200 else "") (src/app.py:308).
CvPreview(text) ==
    IF Len(text) > PreviewLen
    THEN SubSeq(text, 1, PreviewLen) \o <<".", ".", ".">>
    ELSE text

\* A mutant of Caught: the handler catches the extraction's exceptions only.
CaughtExtractionOnly(exception) == exception = "File processing error"

\* except Exception (src/app.py:311, 391): whether the handler of the try
\* block catches an exception raised inside it.
Caught(exception) == TRUE

\* A mutant of AfterExcept: the cleanup is reached on the success path only.
AfterExceptSkipsCleanup == "loop"

\* finally (src/app.py:313, 393): where control goes after the except
\* clause.
AfterExcept == "finally"

InitWeb ==
    /\ call = "none"
    /\ args = <<>>
    /\ ret = NoneVal
    /\ route \in {f \in [Requests -> Routes] : f[1] = "analyze_cvs"}
    /\ files \in {f \in [Requests -> UNION {[1..n -> Uploads] :
                                              n \in 1..(MaxFiles - 1)}] :
                      Len(f[1]) + Len(f[2]) <= MaxFiles}
    /\ pc = [r \in Requests |-> "loop"]
    /\ idx = [r \in Requests |-> 1]
    /\ folder = [p \in Paths |-> NoFile]
    /\ cv_text = [r \in Requests |-> <<>>]
    /\ candidates = [r \in Requests |-> <<>>]
    /\ flashed = [r \in Requests |-> <<>>]
    /\ outcome = [r \in Requests |-> <<>>]
    /\ profile = NoProfile
    /\ applications = <<>>

\* for file in files: if file and file.filename and allowed_file(...)
\* (src/app.py:296-297, 383-384).
LoopNext(r) ==
    /\ pc[r] = "loop"
    /\ IF idx[r] > Len(files[r])
       THEN /\ pc' = [pc EXCEPT ![r] = "after_loop"]
            /\ UNCHANGED <<idx, outcome>>
       ELSE IF CurrentFile(r).filename # <<>>
               /\ allowed_file(CurrentFile(r).filename)
       THEN /\ pc' = [pc EXCEPT ![r] = "save"]
            /\ UNCHANGED <<idx, outcome>>
       ELSE /\ idx' = [idx EXCEPT ![r] = @ + 1]
            /\ outcome' = [outcome EXCEPT ![r] = Append(@, "skipped")]
            /\ UNCHANGED pc
    /\ UNCHANGED <<engineVars, applications, route, files, folder, cv_text, candidates,
                   flashed, profile>>

\* An exception raised in the try block of request r (src/app.py:311-312,
\* 391-392): the except clause flashes the error and the finally clause
\* follows; an exception the clause does not catch leaves the view.
Handle(r, exception) ==
    IF Caught(exception)
    THEN /\ flashed' = [flashed EXCEPT ![r] =
                Append(@, [category |-> "error",
                           filename |-> CurrentFile(r).filename,
                           exception |-> exception])]
         /\ pc' = [pc EXCEPT ![r] = AfterExcept]
         /\ idx' = [idx EXCEPT ![r] = IF AfterExcept = "loop" THEN @ + 1 ELSE @]
    ELSE /\ pc' = [pc EXCEPT ![r] = "aborted"]
         /\ UNCHANGED <<flashed, idx>>

\* file.save(filepath) (src/app.py:301, 388): the file is written whole, or
\* the write fails part-way and leaves a truncated file, or the file cannot
\* be opened and nothing is written.
Save(r) ==
    /\ pc[r] = "save"
    /\ \E written \in {"whole", "part", "nothing"} :
          /\ folder' = IF written = "nothing" THEN folder
                       ELSE [folder EXCEPT ![CurrentPath(r)] =
                               [req |-> r, idx |-> idx[r],
                                whole |-> written = "whole"]]
          /\ IF written = "whole"
             THEN /\ pc' = [pc EXCEPT ![r] = "extract"]
                  /\ UNCHANGED <<outcome, flashed, idx>>
             ELSE /\ Handle(r, "OSError")
                  /\ outcome' = [outcome EXCEPT ![r] = Append(@, "error")]
    /\ UNCHANGED <<engineVars, applications, route, files, cv_text, candidates, profile>>

\* The rest of the try block of analyze_cvs (src/app.py:302-309) and of
\* job_seeker_profile (src/app.py:389-390): the file now at the path is
\* read; analyze_cvs scores the text and appends a candidate,
\* job_seeker_profile keeps the text and breaks out of the loop.
Extract(r) ==
    /\ pc[r] = "extract"
    /\ LET result == extract_text_from_file(CurrentPath(r),
                                            Stored(CurrentPath(r)))
       IN  IF result.ok
           THEN /\ cv_text' = [cv_text EXCEPT ![r] = result.text]
                /\ IF route[r] = "analyze_cvs"
                   THEN /\ \E cosine \in
                              Cosines(CleanText(AnalyzedJob.job_description),
                                      CleanText(result.text)) :
                           \E analysis \in
                              calculate_match(result.text,
                                              AnalyzedJob.job_description,
                                              AnalyzedJob.required_skills,
                                              cosine) :
                              candidates' = [candidates EXCEPT ![r] =
                                 Append(@,
                                    [filename |->
                                        secure_filename(CurrentFile(r).filename),
                                     analysis |-> analysis,
                                     cv_preview |-> CvPreview(result.text)])]
                        /\ pc' = [pc EXCEPT ![r] = "finally"]
                   ELSE /\ pc' = [pc EXCEPT ![r] = "finally_break"]
                        /\ UNCHANGED candidates
                /\ outcome' = [outcome EXCEPT ![r] = Append(@, "ok")]
                /\ UNCHANGED <<flashed, idx>>
           ELSE /\ Handle(r, result.exception)
                /\ outcome' = [outcome EXCEPT ![r] = Append(@, "error")]
                /\ UNCHANGED <<cv_text, candidates>>
    /\ UNCHANGED <<engineVars, applications, route, files, folder, profile>>

\* Where request r goes when the finally clause is done: out of the loop
\* after a break, else to the next upload.
Leave(r) ==
    IF pc[r] \in {"finally_break", "remove_break"}
    THEN /\ pc' = [pc EXCEPT ![r] = "after_loop"]
         /\ UNCHANGED idx
    ELSE /\ pc' = [pc EXCEPT ![r] = "loop"]
         /\ idx' = [idx EXCEPT ![r] = @ + 1]

\* finally: if os.path.exists(filepath) (src/app.py:313-314, 393-394).
Finally(r) ==
    /\ pc[r] \in {"finally", "finally_break"}
    /\ IF Stored(CurrentPath(r)).exists
       THEN /\ pc' = [pc EXCEPT ![r] =
                        IF pc[r] = "finally" THEN "remove" ELSE "remove_break"]
            /\ UNCHANGED idx
       ELSE Leave(r)
    /\ UNCHANGED <<engineVars, applications, route, files, folder, cv_text, candidates,
                   flashed, outcome, profile>>

\* try: os.remove(filepath) except: pass (src/app.py:315-318, 395-398):
\* the file at the path is deleted; when another request has deleted it
\* since the test, the FileNotFoundError is swallowed.
Remove(r) ==
    /\ pc[r] \in {"remove", "remove_break"}
    /\ folder' = [folder EXCEPT ![CurrentPath(r)] = NoFile]
    /\ Leave(r)
    /\ UNCHANGED <<engineVars, applications, route, files, cv_text, candidates, flashed,
                   outcome, profile>>

\* The keys of the sort of analyze_cvs: x['analysis']['total_score'].
TotalScores(list) == [i \in 1..Len(list) |-> list[i].analysis.total_score]

\* After the loop of analyze_cvs (src/app.py:320-327): the candidates are
\* ranked and rendered, or the lack of any is flashed.
AnalyzeResults(r) ==
    /\ pc[r] = "after_loop"
    /\ route[r] = "analyze_cvs"
    /\ IF candidates[r] # <<>>
       THEN /\ candidates' = [candidates EXCEPT ![r] =
                                 SortReverse(@, TotalScores(@))]
            /\ UNCHANGED flashed
       ELSE /\ flashed' = [flashed EXCEPT ![r] =
                   Append(@, [category |-> "error", filename |-> <<>>,
                              exception |-> "No valid CVs processed"])]
            /\ UNCHANGED candidates
    /\ pc' = [pc EXCEPT ![r] = "done"]
    /\ UNCHANGED <<engineVars, applications, route, files, idx, folder, cv_text, outcome,
                   profile>>

\* After the loop of job_seeker_profile (src/app.py:400-426): the profile
\* row is updated or created; a resume text that is empty does not replace
\* the one of an existing row.
SaveProfile(r) ==
    /\ pc[r] = "after_loop"
    /\ route[r] = "job_seeker_profile"
    /\ profile' = IF profile # NoProfile
                  THEN [skills |-> FormSkills,
                        resume_text |-> IF cv_text[r] # <<>> THEN cv_text[r]
                                        ELSE profile.resume_text]
                  ELSE [skills |-> FormSkills, resume_text |-> cv_text[r]]
    /\ flashed' = [flashed EXCEPT ![r] =
            Append(@, [category |-> "success", filename |-> <<>>,
                       exception |-> "Profile updated successfully!"])]
    /\ pc' = [pc EXCEPT ![r] = "done"]
    /\ UNCHANGED <<engineVars, applications, route, files, idx, folder, cv_text, candidates,
                   outcome>>

Next ==
    \/ \E r \in Requests :
          \/ LoopNext(r)
          \/ Save(r)
          \/ Extract(r)
          \/ Finally(r)
          \/ Remove(r)
          \/ AnalyzeResults(r)
          \/ SaveProfile(r)

Spec == InitWeb /\ [][Next]_vars

(***************************************************************************)
(* apply_job (src/app.py:439-475): concurrent requests of one job seeker,  *)
(* each in two steps, the queries and the insert with its commit.          *)
(***************************************************************************)
ApplyRequests == {1, 2, 3}

\* session['user_id'] of the job seeker.
JobSeekerId == 7

\* The JobPost rows apply_job can be asked for.
JobPosts ==
    <<AnalyzedJob,
      [id |-> 2, job_description |-> <<"p", "s">>,
       required_skills |-> <<"s">>]>>

\* The JobSeekerProfile row of the job seeker: none, one without resume
\* text, one with.
ProfileRows ==
    {NoProfile,
     [skills |-> <<"s">>, resume_text |-> <<>>],
     [skills |-> <<"s">>, resume_text |-> <<"p", " ", "s">>]}

\* JobApplication.query.filter_by(job_post_id=..., job_seeker_id=...)
\* .first() is not None (src/app.py:445-448).
ExistingApplication(job_id, user_id) ==
    \E i \in 1..Len(applications) :
        /\ applications[i].job_post_id = job_id
        /\ applications[i].job_seeker_id = user_id

\* profile.resume_text or profile.skills (src/app.py:456).
ProfileText(row) ==
    IF row.resume_text # <<>> THEN row.resume_text ELSE row.skills

InitApply ==
    /\ call = "apply_job"
    /\ args \in [ApplyRequests ->
                    [job_id : 1..Len(JobPosts),
                     user_type : {"job_seeker", "recruiter"}]]
    /\ ret = NoneVal
    /\ route = [r \in ApplyRequests |-> "apply_job"]
    /\ pc = [r \in ApplyRequests |-> "query"]
    /\ flashed = [r \in ApplyRequests |-> <<>>]
    /\ profile \in ProfileRows
    /\ applications = <<>>
    /\ files = <<>>
    /\ idx = <<>>
    /\ folder = <<>>
    /\ cv_text = <<>>
    /\ candidates = <<>>
    /\ outcome = <<>>

\* The session test and the queries of apply_job (src/app.py:441-454,
\* 470-475): a request of someone who is not a job seeker is redirected; an
\* existing application or a missing profile is flashed; else the request
\* goes on to insert.
ApplyQuery(r) ==
    /\ pc[r] = "query"
    /\ IF args[r].user_type # "job_seeker"
       THEN /\ pc' = [pc EXCEPT ![r] = "done"]
            /\ UNCHANGED flashed
       ELSE IF ExistingApplication(args[r].job_id, JobSeekerId)
       THEN /\ pc' = [pc EXCEPT ![r] = "done"]
            /\ flashed' = [flashed EXCEPT ![r] =
                  Append(@, [category |-> "warning",
                             message |-> "You have already applied for this job"])]
       ELSE IF profile = NoProfile
       THEN /\ pc' = [pc EXCEPT ![r] = "done"]
            /\ flashed' = [flashed EXCEPT ![r] =
                  Append(@, [category |-> "error",
                             message |-> "Please complete your profile before applying"])]
       ELSE /\ pc' = [pc EXCEPT ![r] = "insert"]
            /\ UNCHANGED flashed
    /\ UNCHANGED <<engineVars, applications, route, files, idx, folder,
                   cv_text, candidates, outcome, profile>>

\* The scoring, the insert and the commit of apply_job (src/app.py:455-469).
ApplyInsert(r) ==
    /\ pc[r] = "insert"
    /\ LET job_post == JobPosts[args[r].job_id]
       IN  \E cosine \in Cosines(CleanText(job_post.job_description),
                                 CleanText(ProfileText(profile))) :
              \E match_result \in
                    calculate_match(ProfileText(profile),
                                    job_post.job_description,
                                    job_post.required_skills, cosine) :
                 applications' =
                    Append(applications,
                           [job_post_id |-> args[r].job_id,
                            job_seeker_id |-> JobSeekerId,
                            match_score |-> match_result.total_score,
                            status |-> "pending"])
    /\ flashed' = [flashed EXCEPT ![r] =
          Append(@, [category |-> "success",
                     message |-> "Application submitted successfully!"])]
    /\ pc' = [pc EXCEPT ![r] = "done"]
    /\ UNCHANGED <<engineVars, route, files, idx, folder, cv_text, candidates,
                   outcome, profile>>

NextApply == \E r \in ApplyRequests : ApplyQuery(r) \/ ApplyInsert(r)

SpecApply == InitApply /\ [][NextApply]_vars

(***************************************************************************)
(* The specification of the ranking alone: the sort of analyze_cvs and     *)
(* that of job_seeker_dashboard, on every list of at most MaxRanked scores.*)
(* The i-th element of a list is named i.                                  *)
(***************************************************************************)
RankedScores == {1000, 4000, 9000}

\* The candidates of analyze_cvs and the rows of job_seeker_dashboard with
\* the given scores, in the order they were appended.
CandidatesOf(scores) ==
    [i \in 1..Len(scores) |->
        [filename |-> i, analysis |-> [total_score |-> scores[i]]]]
JobPostsOf(scores) ==
    [i \in 1..Len(scores) |-> [job |-> i, match_score |-> scores[i]]]

\* The key of the sort of job_seeker_dashboard: x['match_score'].
MatchScores(list) == [i \in 1..Len(list) |-> list[i].match_score]

InitRank ==
    /\ call \in {"analyze_cvs", "job_seeker_dashboard"}
    /\ args \in [scores : UNION {[1..n -> RankedScores] : n \in 0..MaxRanked}]
    /\ ret = NoneVal
    /\ WebIdle

\* if candidates: candidates.sort(...); best_candidate = candidates[0]
\* (src/app.py:320-325).
RankCandidates ==
    /\ call = "analyze_cvs"
    /\ args.scores # <<>>
    /\ call' = "returned"
    /\ LET ranked == SortReverse(CandidatesOf(args.scores),
                                 TotalScores(CandidatesOf(args.scores)))
       IN  ret' = [ranked |-> ranked, best_candidate |-> ranked[1]]
    /\ UNCHANGED <<args, webVars>>

\* job_posts.sort(key=lambda x: x['match_score'], reverse=True)
\* (src/app.py:365-366).
RankJobPosts ==
    /\ call = "job_seeker_dashboard"
    /\ call' = "returned"
    /\ ret' = [ranked |-> SortReverse(JobPostsOf(args.scores),
                                      MatchScores(JobPostsOf(args.scores)))]
    /\ UNCHANGED <<args, webVars>>

NextRank == RankCandidates \/ RankJobPosts

SpecRank == InitRank /\ [][NextRank]_vars

(***************************************************************************)
(* Properties of calculate_match, checked under SpecMatch.                 *)
(***************************************************************************)
\* The call has returned, and required_skills was a str.
Scored == call = "returned" /\ args.required_skills # NoneVal

\* A ', '-joined field of the result read as a set of tokens: the empty
\* string is the empty set, and the space after each comma belongs to the
\* separator.
TokensRead(joined) ==
    IF joined = <<>> THEN {}
    ELSE LET pieces == SplitComma(joined)
         IN  {IF i = 1 THEN pieces[i] ELSE Drop(pieces[i], 2) :
                 i \in 1..Len(pieces)}

\* The RequiredSkills of the specification: the comma-separated entries,
\* normalized, the empty ones discarded.
RequiredTokens(required_skills) ==
    {normalize_skill(e) : e \in SetOf(SplitComma(required_skills))} \ {<<>>}

\* The cleaned candidate text of the call.
ArgCvClean ==
    CleanText(IF args.cv_text = NoneVal THEN <<>> ELSE args.cv_text)

\* The cleaned job description of the call.
ArgJdClean ==
    CleanText(IF args.job_description = NoneVal THEN <<>>
              ELSE args.job_description)

\* The positions of the RequiredSkills sequence whose token occurs in the
\* candidate text as a whole word.
MatchingEntries ==
    LET required == SkillsList(args.required_skills)
    IN  {i \in 1..Len(required) : SearchWord(required[i], ArgCvClean)}

\* The distinct tokens of RequiredSkills that occur in the candidate text.
MatchingTokens ==
    {t \in SetOf(SkillsList(args.required_skills)) : SearchWord(t, ArgCvClean)}

\* The similarity fraction behind jd_match, as <<numerator, denominator>>.
JdFraction ==
    IF /\ Strip(ArgJdClean) # <<>>
       /\ Strip(ArgCvClean) # <<>>
       /\ Tokens(ArgJdClean) \cup Tokens(ArgCvClean) # {}
    THEN <<args.cosine, SimDen>>
    ELSE <<0, 1>>

\* C1 (as claimed): found_skills and missing_skills, read as sets of tokens,
\* are disjoint and their union is the set of normalized required-skill
\* tokens of the comma-separated string.
C1_FoundMissingPartition ==
    Scored =>
        /\ TokensRead(ret.found_skills) \cap TokensRead(ret.missing_skills) = {}
        /\ TokensRead(ret.found_skills) \cup TokensRead(ret.missing_skills)
              = RequiredTokens(args.required_skills)

\* C2: total_score, jd_match and skills_match of every returned record,
\* the all-zero record of the except branch included, are between 0 and 100
\* (0 and 10000 hundredths).
C2_ScoresInRange ==
    call = "returned" =>
        /\ ret.total_score \in 0..10000
        /\ ret.jd_match \in 0..10000
        /\ ret.skills_match \in 0..10000

\* C2 witness: a call with a duplicated required skill, found, that reports
\* the top of the range of skills_match.
C2_Witness ==
    /\ Scored
    /\ SkillsList(args.required_skills) = <<<<"s">>, <<"s">>>>
    /\ ret.skills_match = 10000
    /\ ret.total_score = 6000

\* C7 (as claimed): skills_match is 100 * |found| / |required| rounded to 2
\* decimals, found being the set of distinct required tokens that match and
\* |required| the length of RequiredSkills; it is 0, with found_skills and
\* missing_skills empty, when RequiredSkills is empty.
C7_DistinctFoundOverLength ==
    Scored =>
        LET required == SkillsList(args.required_skills)
        IN  IF required = <<>>
            THEN /\ ret.skills_match = 0
                 /\ ret.found_skills = <<>>
                 /\ ret.missing_skills = <<>>
            ELSE ret.skills_match =
                    RoundHalfEven(10000 * Cardinality(MatchingTokens),
                                  Len(required))

\* C7 (amended): skills_match is 100 * m / |required| rounded to 2 decimals,
\* m being the number of entries of RequiredSkills that match, duplicates
\* counted as in |required|; it is 0, with found_skills and missing_skills
\* empty, when RequiredSkills is empty.
C7_MatchingEntriesOverLength ==
    Scored =>
        LET required == SkillsList(args.required_skills)
        IN  IF required = <<>>
            THEN /\ ret.skills_match = 0
                 /\ ret.found_skills = <<>>
                 /\ ret.missing_skills = <<>>
            ELSE ret.skills_match =
                    RoundHalfEven(10000 * Cardinality(MatchingEntries),
                                  Len(required))

\* C7 witness: a required skill listed twice is found, and counts twice.
C7_Witness ==
    /\ Scored
    /\ <<>> \notin SetOf(SkillsList(args.required_skills))
    /\ Cardinality(MatchingEntries) = 2
    /\ Cardinality(MatchingTokens) = 1
    /\ ret.skills_match = 10000

\* C8: total_score is round(skills fraction * 60 + similarity fraction * 40,
\* 2), the fractions being those behind the reported skills_match and
\* jd_match; it is 60 when every skill is found and the similarity is 0,
\* and 40 when no skill is found and the similarity is 1.
C8_TotalScoreWeighted ==
    Scored =>
        LET n == Len(SkillsList(args.required_skills))
            sf == IF n = 0 THEN <<0, 1>>
                  ELSE <<Cardinality(MatchingEntries), n>>
            jf == JdFraction
        IN  /\ ret.skills_match = RoundHalfEven(10000 * sf[1], sf[2])
            /\ ret.jd_match = RoundHalfEven(10000 * jf[1], jf[2])
            /\ ret.total_score =
                  RoundHalfEven(100 * (60 * sf[1] * jf[2] + 40 * jf[1] * sf[2]),
                                sf[2] * jf[2])
            /\ (sf[1] = sf[2] /\ jf[1] = 0) => ret.total_score = 6000
            /\ (sf[1] = 0 /\ jf[1] = jf[2]) => ret.total_score = 4000

\* C8 witness: every skill found and a similarity of 1/3, so that the sum
\* 73.333... is rounded.
C8_Witness ==
    /\ Scored
    /\ args.required_skills = <<"p", "s">>
    /\ ret.skills_match = 10000
    /\ ret.jd_match = 3333
    /\ ret.total_score = 7333

\* C9 (as claimed): RequiredSkills holds no empty token: the empty token is
\* not in the list whose length divides skills_match, and is in neither
\* found_skills nor missing_skills.
C9_NoEmptyToken ==
    Scored =>
        LET required == SkillsList(args.required_skills)
            proper == {i \in 1..Len(required) : required[i] # <<>>}
        IN  /\ <<>> \notin SetOf(required)
            /\ <<>> \notin TokensRead(ret.found_skills)
            /\ <<>> \notin TokensRead(ret.missing_skills)
            /\ ret.skills_match =
                  IF proper = {} THEN 0
                  ELSE RoundHalfEven(
                          10000 * Cardinality(MatchingEntries \cap proper),
                          Cardinality(proper))

\* Token t stands in text at offset i, character for character.
StandsAt(t, text, i) ==
    /\ i + Len(t) <= Len(text)
    /\ \A j \in 1..Len(t) : text[i + j] = t[j]

\* The occurrence of length n at offset i of text is not part of a larger
\* word: no word character is next to it on either side.
NotInLargerWord(text, i, n) ==
    /\ i = 0 \/ ~IsWordChar(text[i])
    /\ i + n = Len(text) \/ ~IsWordChar(text[i + n + 1])

\* C14: a token is in found_skills only if it stands in the cleaned
\* candidate text, character for character (the single spaces of a
\* multi-word token included), between two word boundaries, and so never
\* when it only stands inside a larger word.
C14_WholeWordMatch ==
    Scored =>
        \A t \in TokensRead(ret.found_skills) :
            \E i \in 0..Len(ArgCvClean) :
                /\ StandsAt(t, ArgCvClean, i)
                /\ WordBoundary(ArgCvClean, i)
                /\ WordBoundary(ArgCvClean, i + Len(t))
                /\ t # <<>> => NotInLargerWord(ArgCvClean, i, Len(t))

\* C14 witness: the two-word skill 'p s' is found in the text 'p s'.
C14_Witness ==
    /\ Scored
    /\ args.required_skills = <<"p", " ", "s">>
    /\ args.cv_text = <<"p", " ", "s">>
    /\ ret.found_skills = <<"p", " ", "s">>
    /\ ret.skills_match = 10000

\* C16: a required skill whose token holds a hyphen is in missing_skills
\* and not in found_skills, whatever the candidate text.
C16_HyphenatedSkillMissing ==
    Scored =>
        \A t \in SetOf(SkillsList(args.required_skills)) :
            "-" \in SetOf(t) =>
                /\ t \in TokensRead(ret.missing_skills)
                /\ t \notin TokensRead(ret.found_skills)

\* C16 witness: the skill 's-p' is missing from the text 's-p'.
C16_Witness ==
    /\ Scored
    /\ args.required_skills = <<"s", "-", "p">>
    /\ args.cv_text = <<"s", "-", "p">>
    /\ ret.missing_skills = <<"s", "-", "p">>
    /\ ret.found_skills = <<>>
    /\ ret.skills_match = 0

\* fit_transform raises in the call: both cleaned texts have a non-blank
\* character and neither has a feature (ValueError: empty vocabulary).
VectorizationFails ==
    /\ Strip(ArgJdClean) # <<>>
    /\ Strip(ArgCvClean) # <<>>
    /\ Tokens(ArgJdClean) \cup Tokens(ArgCvClean) = {}

\* C13: calculate_match always returns a record; a failure outside the
\* similarity step (a required_skills that is not a str) gives exactly the
\* all-zero record with empty found_skills and missing_skills; a failure
\* of the vectorization only sets jd_match to 0 and leaves skills_match,
\* found_skills and missing_skills as they are without it.
C13_NeverPropagates ==
    /\ call = "calculate_match" =>
          calculate_match(args.cv_text, args.job_description,
                          args.required_skills, args.cosine) # {}
    /\ call = "returned" =>
          /\ DOMAIN ret = {"total_score", "jd_match", "skills_match",
                           "missing_skills", "found_skills"}
          /\ args.required_skills = NoneVal =>
                ret = [total_score |-> 0, jd_match |-> 0, skills_match |-> 0,
                       missing_skills |-> <<>>, found_skills |-> <<>>]
          /\ (Scored /\ VectorizationFails) =>
                LET required == SkillsList(args.required_skills)
                    Matches(skill) == SearchWord(skill, ArgCvClean)
                    found == SelectSeq(required, Matches)
                IN  /\ ret.jd_match = 0
                    /\ ret.skills_match =
                          IF required = <<>> THEN 0
                          ELSE RoundHalfEven(
                                  10000 * Cardinality(MatchingEntries),
                                  Len(required))
                    /\ ret.total_score =
                          IF required = <<>> THEN 0
                          ELSE RoundHalfEven(
                                  6000 * Cardinality(MatchingEntries),
                                  Len(required))
                    /\ ret.found_skills = Join(found, <<",", " ">>)
                    /\ ret.missing_skills \in
                          {Join(missing, <<",", " ">>) :
                              missing \in ListsOf(SetOf(required) \ SetOf(found))}

\* C13 witness: the vectorization fails on two one-letter texts, and the
\* one required skill is still found.
C13_Witness ==
    /\ Scored
    /\ args.job_description = <<"p">>
    /\ args.cv_text = <<"s">>
    /\ args.required_skills = <<"s">>
    /\ ret.jd_match = 0
    /\ ret.skills_match = 10000
    /\ ret.found_skills = <<"s">>

(***************************************************************************)
(* Properties of normalize_skill, checked under SpecNormalize.             *)
(***************************************************************************)
\* The other case of a letter.
SwapCase(c) == CASE c = "p" -> "P" [] c = "P" -> "p"
                 [] c = "s" -> "S" [] c = "S" -> "s" [] OTHER -> c

\* The strings that differ from x only in letter case.
RECURSIVE CaseVariants(_)
CaseVariants(x) ==
    IF x = <<>> THEN {<<>>}
    ELSE {<<c>> \o t : c \in {Head(x), SwapCase(Head(x))},
                       t \in CaseVariants(Tail(x))}

\* The strings that differ from x only in letter case and in leading or
\* trailing whitespace.
Variants(x) ==
    {lead \o y \o trail :
        lead \in Strings({" ", "\t"}, 1),
        trail \in Strings({" ", "\t"}, 1),
        y \in CaseVariants(x)}

\* C10: normalize_skill is idempotent, and two inputs that differ only in
\* letter case or in leading or trailing whitespace have the same token.
C10_IdempotentCaseInsensitive ==
    call = "returned" =>
        /\ normalize_skill(ret) = ret
        /\ \A v \in Variants(args.skill) : normalize_skill(v) = ret

\* C10 witness: an input with a capital, punctuation and outer whitespace
\* that normalization changes.
C10_Witness ==
    /\ call = "returned"
    /\ args.skill = <<" ", "P", "!", "\t">>
    /\ ret = <<"p">>

\* A lowercase alphanumeric character: a \w that is neither the underscore
\* nor changed by lower().
IsLowerAlnum(c) == IsWordChar(c) /\ c # "_" /\ LowerChar(c) = c

\* C11 (as claimed): the token normalize_skill returns holds only lowercase
\* alphanumerics, hyphens and single spaces (punctuation and the underscore
\* are stripped), has no run of two whitespace characters and no leading or
\* trailing whitespace.
C11_TokenCharset ==
    call = "returned" =>
        /\ \A i \in 1..Len(ret) : IsLowerAlnum(ret[i]) \/ ret[i] \in {"-", " "}
        /\ \A i \in 1..(Len(ret) - 1) :
              ~(IsSpaceChar(ret[i]) /\ IsSpaceChar(ret[i + 1]))
        /\ ret # <<>> => ~IsSpaceChar(ret[1]) /\ ~IsSpaceChar(ret[Len(ret)])

(***************************************************************************)
(* Properties of extract_text_from_file, checked under SpecExtract.        *)
(***************************************************************************)
\* The type python-magic detects in the file of the call.
ArgSniffed ==
    IF args.stored.whole THEN args.stored.upload.mime
    ELSE "application/octet-stream"

\* The lower-cased extension of the path of the call, <<>> without one.
ArgExtension ==
    IF Len(RSplitDot(args.file_path)) < 2 THEN <<>>
    ELSE Lower(RSplitDot(args.file_path)[2])

\* C12 (as claimed): the sniffed type decides first, whatever the
\* extension; the extension decides only when the sniffed type is neither
\* PDF nor DOCX; and when neither resolves, a path without an extension
\* included, no extractor runs and the call fails with the unsupported-type
\* error that names the detected type.
C12_DispatchSniffedThenExtension ==
    (call = "returned" /\ args.stored.exists) =>
        IF ArgSniffed = PdfMime THEN ret.ran = "pdf"
        ELSE IF ArgSniffed = DocxMime THEN ret.ran = "docx"
        ELSE IF ArgExtension = <<"p", "d", "f">> THEN ret.ran = "pdf"
        ELSE IF ArgExtension = <<"d", "o", "c", "x">> THEN ret.ran = "docx"
        ELSE /\ ret.ran = "none"
             /\ ~ret.ok
             /\ ret.cause = "Unsupported file type"
             /\ ret.names = ArgSniffed

(***************************************************************************)
(* Properties of apply_job, checked under SpecApply.                       *)
(***************************************************************************)
\* C15 (as claimed): whatever the interleaving of the apply_job requests,
\* no two JobApplication rows are of the same job post and job seeker.
C15_AtMostOneApplication ==
    call = "apply_job" =>
        \A i, j \in 1..Len(applications) :
            (/\ applications[i].job_post_id = applications[j].job_post_id
             /\ applications[i].job_seeker_id = applications[j].job_seeker_id)
                => i = j

(***************************************************************************)
(* Properties of the ranking, checked under SpecRank.                      *)
(***************************************************************************)
\* The name and the score of a ranked element, whichever list it is in.
RankedName(x) == IF "job" \in DOMAIN x THEN x.job ELSE x.filename
RankedScore(x) ==
    IF "job" \in DOMAIN x THEN x.match_score ELSE x.analysis.total_score

\* C3: the ranked list is non-increasing in score, is a permutation of the
\* input, and keeps elements of equal score in their insertion order; this
\* holds of the candidates and of the job posts of the dashboard.
C3_RankingStableDescending ==
    call = "returned" =>
        LET ranked == ret.ranked
            n == Len(args.scores)
        IN  /\ Len(ranked) = n
            /\ {RankedName(ranked[k]) : k \in 1..n} = 1..n
            /\ \A k \in 1..n :
                  RankedScore(ranked[k]) = args.scores[RankedName(ranked[k])]
            /\ \A k, l \in 1..n :
                  k < l => /\ RankedScore(ranked[k]) >= RankedScore(ranked[l])
                           /\ RankedScore(ranked[k]) = RankedScore(ranked[l])
                                 => RankedName(ranked[k]) < RankedName(ranked[l])

\* C3 witness: the scores 40, 90, 90, 10 are ranked 90, 90, 40, 10 with the
\* two 90s in their original order.
C3_Witness ==
    /\ call = "returned"
    /\ args.scores = <<4000, 9000, 9000, 1000>>
    /\ [k \in 1..4 |-> RankedName(ret.ranked[k])] = <<2, 3, 1, 4>>

(***************************************************************************)
(* Properties of the upload handling, checked under Spec.                  *)
(***************************************************************************)
\* Request r is done with its i-th upload.
Finished(r, i) == i < idx[r] \/ pc[r] \in {"after_loop", "done"}

\* The uploads of request r that were saved, extracted and scored.
Succeeded(r) == {i \in 1..Len(outcome[r]) : outcome[r][i] = "ok"}

\* C4: a failure while saving, extracting or scoring one document of a
\* batch never ends the batch: the view is not left, every document is
\* gone through before the results are made, a failed document is not among
\* the candidates and every document that succeeded is.
C4_BatchSurvivesFailure ==
    \A r \in Requests :
        route[r] = "analyze_cvs" =>
            /\ pc[r] # "aborted"
            /\ pc[r] \in {"after_loop", "done"}
                  => Len(outcome[r]) = Len(files[r])
            /\ Len(candidates[r]) = Cardinality(Succeeded(r))
            /\ \A name \in {secure_filename(u.filename) : u \in Uploads} :
                  Cardinality({k \in 1..Len(candidates[r]) :
                                  candidates[r][k].filename = name})
                  = Cardinality({i \in Succeeded(r) :
                                  secure_filename(files[r][i].filename) = name})

\* C4 witness: a batch whose first document failed to save and whose second
\* document was scored and ranked.
C4_Witness ==
    \E r \in Requests :
        /\ route[r] = "analyze_cvs"
        /\ pc[r] = "done"
        /\ outcome[r] = <<"error", "ok">>
        /\ flashed[r][1].exception = "OSError"
        /\ Len(candidates[r]) = 1

C6_ScratchFileOwnedByCall ==
    \A r \in Requests :
        /\ pc[r] = "extract"
              => folder[CurrentPath(r)]
                    = [req |-> r, idx |-> idx[r], whole |-> TRUE]
        /\ (/\ pc[r] \in {"finally", "remove", "finally_break", "remove_break"}
            /\ Len(outcome[r]) = idx[r]
            /\ outcome[r][idx[r]] = "ok")
              => cv_text[r] = CurrentFile(r).text

=============================================================================
